---- MODULE Spec2Model ----
(***************************************************************************)
(* Usage telemetry of the chat application: the transaction ledger, the    *)
(* list route (GET /api/user/transactions) and the summary route           *)
(* (GET /api/user/transactions/summary) of                                 *)
(* api/server/routes/custom/transactions.js.                               *)
(*                                                                         *)
(* Time is counted in seconds (the code's millisecond timestamps divided   *)
(* by 1000), so that 30 days stay inside TLC's integers.                   *)
(* An optional field or query parameter is <<>> when absent and <<v>> when *)
(* present.                                                                *)
(***************************************************************************)
EXTENDS Integers, Sequences, FiniteSets, TLC

VARIABLES
    ledger,   \* the Transaction collection, in insertion order
    tick,     \* position of the wall clock in Instants
    req,      \* the request being served
    res,      \* the response sent for it
    run,      \* the locals of the route handler between its awaits
    nowMs,    \* Date.now() of the browser, in milliseconds
    cadence,  \* the time between two chunks of the generation, in milliseconds
    storage,  \* localStorage[TOKEN_DISPLAY_KEY] of the browser
    toggle,   \* the TokenDisplayToggle of the usage page
    displays, \* the MessageTokens components, one per message
    stats     \* the StreamingStats component

serverVars == <<ledger, tick, req, res, run>>
clientVars == <<nowMs, cadence, storage, toggle, displays, stats>>
vars == <<ledger, tick, req, res, run, nowMs, cadence, storage, toggle, displays, stats>>

(***************************************************************************)
(* Bounds of the model.                                                    *)
(***************************************************************************)
MaxLedger == 2      \* records in the ledger of Spec
MaxBig == 13        \* records in the ledger of SpecBig
MaxTies == 1        \* records of SpecBig written in the same second as their predecessor
MaxOthers == 1      \* records of SpecBig owned by another user
MaxShort == 6       \* steps of the browser clock in SpecRate
MaxSteps == 24      \* steps of the browser clock in SpecSteady

(***************************************************************************)
(* Program constants.                                                      *)
(***************************************************************************)
DayLen == 24 * 60 * 60
WeekLen == 7 * 24 * 60 * 60
MonthLen == 30 * 24 * 60 * 60
DefaultLimit == 100
DefaultOffset == 0
MaxLimit == 1000
TopModels == 10

(***************************************************************************)
(* The wall clock: the instants at which a record is written or a request  *)
(* is served.  Seen from the last instant, the earlier ones are 30 days    *)
(* and a second, 30 days, 7 days and 1 day old.                            *)
(***************************************************************************)
Epoch == 19675 * DayLen    \* midnight UTC of a day
Instants ==
    << Epoch,
       Epoch + 1,
       Epoch + 1 + (MonthLen - WeekLen),
       Epoch + 1 + (MonthLen - DayLen),
       Epoch + 1 + MonthLen >>

\* past the listed instants the clock goes on second by second
InstantAt(i) ==
    IF i <= Len(Instants) THEN Instants[i]
    ELSE Instants[Len(Instants)] + (i - Len(Instants))

clock == InstantAt(tick)

(***************************************************************************)
(* Users.  req.user.id is a string; an id of 24 hex digits is also the     *)
(* text of an ObjectId.                                                    *)
(***************************************************************************)
Alice == "64b7f0c2a1d3e4f5a6b7c8d1"
Bob == "64b7f0c2a1d3e4f5a6b7c8d2"
Guest == "guest"
HexIds == {Alice, Bob}
UserIds == {Alice, Bob, Guest}
\* the users whose requests the model follows; Bob only owns records
Requesters == {Alice, Guest}

StringUser(id) == [form |-> "string", id |-> id]
ObjectIdUser(id) == [form |-> "objectid", id |-> id]

\* mongoose.Types.ObjectId.isValid
ObjectIdIsValid(id) == id \in HexIds

toObjectId(id) == IF ObjectIdIsValid(id) THEN ObjectIdUser(id) ELSE StringUser(id)

(***************************************************************************)
(* Transactions as the ledger writer stores them (without _id and          *)
(* createdAt, which the store adds).                                       *)
(***************************************************************************)
Tx(user, tokenType, rawAmount, inputTokens, writeTokens, readTokens, tokenValue, model, conv) ==
    [ user |-> user, tokenType |-> tokenType, rawAmount |-> rawAmount,
      inputTokens |-> inputTokens, writeTokens |-> writeTokens,
      readTokens |-> readTokens, tokenValue |-> tokenValue,
      model |-> model, conversationId |-> conv ]

Written ==
    { \* a prompt with the structured breakdown
      Tx(StringUser(Alice), "prompt", <<-15>>, <<-10>>, <<-2>>, <<-3>>, <<-30>>, <<"gpt-4">>, <<"c1">>),
      \* a prompt written before the structured breakdown existed
      Tx(ObjectIdUser(Alice), "prompt", <<-7>>, <<>>, <<>>, <<>>, <<-14>>, <<"gpt-4">>, <<"c1">>),
      Tx(ObjectIdUser(Alice), "completion", <<-20>>, <<>>, <<>>, <<>>, <<-60>>, <<"claude">>, <<"c2">>),
      Tx(StringUser(Alice), "credits", <<1000>>, <<>>, <<>>, <<>>, <<1000>>, <<>>, <<>>),
      \* a prompt whose structured fields are all zero, without model
      Tx(StringUser(Alice), "prompt", <<-4>>, <<0>>, <<>>, <<>>, <<>>, <<>>, <<>>),
      Tx(StringUser(Bob), "prompt", <<-9>>, <<0>>, <<0>>, <<0>>, <<-18>>, <<"gpt-4">>, <<"c1">>),
      \* a record without rawAmount
      Tx(StringUser(Guest), "completion", <<>>, <<>>, <<>>, <<>>, <<-1>>, <<"claude">>, <<>>) }

Stored(tx, id, at) ==
    [ id |-> id, createdAt |-> at, user |-> tx.user, tokenType |-> tx.tokenType,
      rawAmount |-> tx.rawAmount, inputTokens |-> tx.inputTokens,
      writeTokens |-> tx.writeTokens, readTokens |-> tx.readTokens,
      tokenValue |-> tx.tokenValue, model |-> tx.model,
      conversationId |-> tx.conversationId ]

(***************************************************************************)
(* Aggregation expressions.                                                *)
(***************************************************************************)
Abs(n) == IF n < 0 THEN -n ELSE n

\* { $ifNull: [field, 0] }
IfNull0(f) == IF f = <<>> THEN 0 ELSE f[1]

\* { $abs: { $ifNull: [field, 0] } }
AbsIfNull0(f) == Abs(IfNull0(f))

\* { $sum: { $abs: field } }: $abs of a missing field is null, which $sum skips
SumAbs(f) == IF f = <<>> THEN 0 ELSE Abs(f[1])

RECURSIVE SumSeq(_)
SumSeq(s) == IF s = <<>> THEN 0 ELSE Head(s) + SumSeq(Tail(s))

\* All orders of S in which key never increases: the outcomes of a sort by
\* key descending, which leaves the order of equal keys open.
RECURSIVE SortDesc(_, _)
SortDesc(S, key) ==
    IF S = {} THEN {<<>>}
    ELSE LET top == {x \in S : \A y \in S : key[y] <= key[x]}
         IN UNION {{<<x>> \o t : t \in SortDesc(S \ {x}, key)} : x \in top}

FirstN(s, n) == IF Len(s) <= n THEN s ELSE SubSeq(s, 1, n)

(***************************************************************************)
(* GET /summary                                                            *)
(***************************************************************************)
\* const { period = 'month' } = req.query
PeriodOf(q) == IF q = <<>> THEN "month" ELSE q[1]

\* faulty variant: an unknown period is not windowed at all
StartDateNoDefault(period, now) ==
    CASE period = "day" -> <<now - DayLen>>
      [] period = "week" -> <<now - WeekLen>>
      [] period = "month" -> <<now - MonthLen>>
      [] OTHER -> <<>>

\* the switch on period; <<>> is null
StartDate(period, now) ==
    CASE period = "day" -> <<now - DayLen>>
      [] period = "week" -> <<now - WeekLen>>
      [] period = "month" -> <<now - MonthLen>>
      [] period = "all" -> <<>>
      [] OTHER -> <<now - MonthLen>>

\* faulty variant: only the string form of the id is matched
UserFilterStringOnly(r, userId) == r.user = StringUser(userId)

\* { $or: [{ user: userId }, { user: userObjectId }] }
UserFilter(r, userId) == r.user = StringUser(userId) \/ r.user = toObjectId(userId)

\* faulty variant: $gt where the route has $gte
MatchStageStrict(r, userId, startDate) ==
    IF startDate # <<>>
    THEN (r.user = StringUser(userId) \/ r.user = toObjectId(userId)) /\ r.createdAt > startDate[1]
    ELSE r.user = StringUser(userId) \/ r.user = toObjectId(userId)

MatchStage(r, userId, startDate) ==
    IF startDate # <<>>
    THEN UserFilter(r, userId) /\ r.createdAt >= startDate[1]
    ELSE UserFilter(r, userId)

\* the $group expressions of the first aggregation, per record
PromptStructured(r) ==
    IF r.tokenType = "prompt"
    THEN AbsIfNull0(r.inputTokens) + AbsIfNull0(r.writeTokens) + AbsIfNull0(r.readTokens)
    ELSE 0

PromptRaw(r) ==
    IF /\ r.tokenType = "prompt"
       /\ IfNull0(r.inputTokens) = 0
       /\ IfNull0(r.writeTokens) = 0
       /\ IfNull0(r.readTokens) = 0
    THEN SumAbs(r.rawAmount)
    ELSE 0

\* faulty variant: every record that is no prompt counts as a completion
CompletionNotPrompt(r) == IF r.tokenType # "prompt" THEN SumAbs(r.rawAmount) ELSE 0

Completion(r) == IF r.tokenType = "completion" THEN SumAbs(r.rawAmount) ELSE 0

\* the first aggregation: no document when nothing matches
Aggregation(docs) ==
    IF docs = <<>> THEN <<>>
    ELSE << [ promptTokens |-> SumSeq([i \in 1..Len(docs) |-> PromptStructured(docs[i])]),
              promptTokensRaw |-> SumSeq([i \in 1..Len(docs) |-> PromptRaw(docs[i])]),
              completionTokens |-> SumSeq([i \in 1..Len(docs) |-> Completion(docs[i])]),
              transactionCount |-> Len(docs) ] >>

\* the tokens expression of the per-model aggregation, per record
ModelTokens(r) ==
    IF r.tokenType = "prompt"
    THEN IF AbsIfNull0(r.inputTokens) + AbsIfNull0(r.writeTokens) + AbsIfNull0(r.readTokens) > 0
         THEN AbsIfNull0(r.inputTokens) + AbsIfNull0(r.writeTokens) + AbsIfNull0(r.readTokens)
         ELSE SumAbs(r.rawAmount)
    ELSE SumAbs(r.rawAmount)

\* $group by '$model': one entry per model value, a missing model is the key null (<<>>)
ModelGroups(docs) ==
    LET keys == {docs[i].model : i \in 1..Len(docs)}
        rows(k) == SelectSeq(docs, LAMBDA r : r.model = k)
    IN [ k \in keys |->
           [ _id |-> k,
             tokens |-> SumSeq([i \in 1..Len(rows(k)) |-> ModelTokens(rows(k)[i])]),
             count |-> Len(rows(k)) ] ]

\* the results the per-model aggregation can return: $sort tokens -1, $limit 10
ModelBreakdowns(docs) ==
    LET g == ModelGroups(docs)
        tokens == [k \in DOMAIN g |-> g[k].tokens]
    IN { FirstN([i \in 1..Len(o) |-> g[o[i]]], TopModels) : o \in SortDesc(DOMAIN g, tokens) }

\* $dateToString '%Y-%m-%d' of createdAt, as the number of the UTC day
DateKey(at) == at \div DayLen

RECURSIVE SortAsc(_)
SortAsc(S) ==
    IF S = {} THEN <<>>
    ELSE LET m == CHOOSE x \in S : \A y \in S : x <= y IN <<m>> \o SortAsc(S \ {m})

DailyUsage(docs) ==
    LET days == SortAsc({DateKey(docs[i].createdAt) : i \in 1..Len(docs)})
        rows(d) == SelectSeq(docs, LAMBDA r : DateKey(r.createdAt) = d)
    IN [ j \in 1..Len(days) |->
           [ _id |-> days[j],
             tokens |-> SumSeq([i \in 1..Len(rows(days[j])) |-> SumAbs(rows(days[j])[i].rawAmount)]),
             cost |-> SumSeq([i \in 1..Len(rows(days[j])) |-> SumAbs(rows(days[j])[i].tokenValue)]) ] ]

RawSummary(aggregation) ==
    IF aggregation # <<>> THEN aggregation[1]
    ELSE [promptTokens |-> 0, promptTokensRaw |-> 0, completionTokens |-> 0, transactionCount |-> 0]

\* rawSummary.promptTokens > 0 ? rawSummary.promptTokens : rawSummary.promptTokensRaw
PromptTokens(rawSummary) ==
    IF rawSummary.promptTokens > 0 THEN rawSummary.promptTokens ELSE rawSummary.promptTokensRaw

CompletionTokens(rawSummary) == rawSummary.completionTokens

TotalTokens(rawSummary) == PromptTokens(rawSummary) + CompletionTokens(rawSummary)

SummaryBody(rawSummary, period, modelBreakdown, dailyUsage) ==
    [ totalTokens |-> TotalTokens(rawSummary),
      promptTokens |-> PromptTokens(rawSummary),
      completionTokens |-> CompletionTokens(rawSummary),
      transactionCount |-> rawSummary.transactionCount,
      period |-> period,
      modelBreakdown |-> modelBreakdown,
      dailyUsage |-> dailyUsage ]

\* the documents the three aggregations of one request match
SummaryMatched(docs, userId, period, now) ==
    SelectSeq(docs, LAMBDA r : MatchStage(r, userId, StartDate(period, now)))

\* the bodies the summary route can send when its three aggregations read
\* the collections first, second and third
SummaryBodiesRead(first, second, third, userId, q, now) ==
    LET period == PeriodOf(q)
        matched(docs) == SummaryMatched(docs, userId, period, now)
    IN { SummaryBody(RawSummary(Aggregation(matched(first))), period, mb,
                     DailyUsage(matched(third)))
           : mb \in ModelBreakdowns(matched(second)) }

\* the bodies the summary route can send for a ledger that no write changes
\* during the call
SummaryBodies(docs, userId, q, now) == SummaryBodiesRead(docs, docs, docs, userId, q, now)

NoRequest == [op |-> "none"]
NoResponse == [status |-> 0]

\* no handler is running
Idle == [pc |-> "idle"]

Periods == {<<>>, <<"day">>, <<"week">>, <<"month">>, <<"all">>, <<"year">>}

\* the periods asked for by the user whose id is no ObjectId
GuestPeriods == {<<>>, <<"all">>}

(***************************************************************************)
(* Numbers of the list route.  A query parameter is a string, here the     *)
(* sequence of its characters; a number is NaN or an integer.              *)
(***************************************************************************)
NaN == [nan |-> TRUE, n |-> 0]
Num(n) == [nan |-> FALSE, n |-> n]

DigitChars == <<"0", "1", "2", "3", "4", "5", "6", "7", "8", "9">>
IsDigit(c) == \E d \in 1..10 : DigitChars[d] = c
DigitValue(c) == (CHOOSE d \in 1..10 : DigitChars[d] = c) - 1

\* StrWhiteSpaceChar, which parseInt skips: TAB, LF, VT, FF, CR, SP, NBSP,
\* ZWNBSP, the line and paragraph separators and the space separators.  A
\* character that has no escape in a string is written by its code point.
WhiteSpaceChars ==
    { "\t", "\n", "\f", "\r", " ", "U+000B", "U+00A0", "U+FEFF", "U+2028", "U+2029",
      "U+1680", "U+2000", "U+2001", "U+2002", "U+2003", "U+2004", "U+2005", "U+2006",
      "U+2007", "U+2008", "U+2009", "U+200A", "U+202F", "U+205F", "U+3000" }

IsSpace(c) == c \in WhiteSpaceChars

\* String(n) of a non-negative integer
RECURSIVE NumberToString(_)
NumberToString(n) ==
    IF n < 10 THEN <<DigitChars[n + 1]>>
    ELSE NumberToString(n \div 10) \o <<DigitChars[(n % 10) + 1]>>

RECURSIVE TrimStart(_)
TrimStart(s) == IF s # <<>> /\ IsSpace(Head(s)) THEN TrimStart(Tail(s)) ELSE s

RECURSIVE DigitPrefix(_)
DigitPrefix(s) ==
    IF s # <<>> /\ IsDigit(Head(s)) THEN <<Head(s)>> \o DigitPrefix(Tail(s)) ELSE <<>>

RECURSIVE DigitsValue(_)
DigitsValue(s) ==
    IF s = <<>> THEN 0
    ELSE 10 * DigitsValue(SubSeq(s, 1, Len(s) - 1)) + DigitValue(s[Len(s)])

\* parseInt(s, 10): leading white space, a sign, then the digits up to the
\* first character that is no digit; NaN when there is no digit
ParseInt(s) ==
    LET t == TrimStart(s)
        signed == t # <<>> /\ Head(t) \in {"-", "+"}
        digits == DigitPrefix(IF signed THEN Tail(t) ELSE t)
    IN IF digits = <<>> THEN NaN
       ELSE IF signed /\ Head(t) = "-" THEN Num(-DigitsValue(digits))
       ELSE Num(DigitsValue(digits))

\* Math.min(x, 1000)
MinWithMax(x) == IF x.nan THEN NaN ELSE IF x.n < MaxLimit THEN x ELSE Num(MaxLimit)

(***************************************************************************)
(* GET /                                                                   *)
(***************************************************************************)
\* const { limit = 100, offset = 0 } = req.query, then parseInt(.., 10)
LimitOf(q) == ParseInt(IF q.limit = <<>> THEN NumberToString(DefaultLimit) ELSE q.limit[1])
OffsetOf(q) == ParseInt(IF q.offset = <<>> THEN NumberToString(DefaultOffset) ELSE q.offset[1])

\* if (model), if (conversationId): an empty string is falsy as an absent
\* parameter is
Truthy(f) == f # <<>> /\ f[1] # ""

\* the filter built from userId and the query
ListFilter(r, userId, q) ==
    /\ UserFilter(r, userId)
    /\ q.startDate # <<>> => r.createdAt >= q.startDate[1]
    /\ q.endDate # <<>> => r.createdAt <= q.endDate[1]
    /\ Truthy(q.model) => r.model = q.model
    /\ Truthy(q.conversationId) => r.conversationId = q.conversationId

ListMatched(docs, userId, q) == SelectSeq(docs, LAMBDA r : ListFilter(r, userId, q))

\* cursor.skip(n): a negative skip is refused by the store; what the store
\* does with NaN is not fixed by this code: it fails or skips nothing
SkipOutcomes(s, x) ==
    IF x.nan THEN {[ok |-> FALSE, docs |-> <<>>], [ok |-> TRUE, docs |-> s]}
    ELSE IF x.n < 0 THEN {[ok |-> FALSE, docs |-> <<>>]}
    ELSE IF x.n >= Len(s) THEN {[ok |-> TRUE, docs |-> <<>>]}
    ELSE {[ok |-> TRUE, docs |-> SubSeq(s, x.n + 1, Len(s))]}

\* cursor.limit(n): 0 is no limit, a negative limit is its absolute value;
\* NaN fails or limits nothing
LimitOutcomes(s, x) ==
    IF x.nan THEN {[ok |-> FALSE, docs |-> <<>>], [ok |-> TRUE, docs |-> s]}
    ELSE IF x.n = 0 THEN {[ok |-> TRUE, docs |-> s]}
    ELSE {[ok |-> TRUE, docs |-> FirstN(s, Abs(x.n))]}

\* Transaction.find(filter).sort({ createdAt: -1 }).skip(..).limit(..).lean()
FindOutcomes(docs, userId, q) ==
    LET m == ListMatched(docs, userId, q)
        at == [i \in 1..Len(m) |-> m[i].createdAt]
        sorted == {[j \in 1..Len(o) |-> m[o[j]]] : o \in SortDesc(1..Len(m), at)}
        skipped == UNION {SkipOutcomes(s, OffsetOf(q)) : s \in sorted}
    IN UNION { IF k.ok THEN LimitOutcomes(k.docs, MinWithMax(LimitOf(q))) ELSE {k}
                 : k \in skipped }

\* Transaction.countDocuments(filter)
CountDocuments(docs, userId, q) == Len(ListMatched(docs, userId, q))

ListBody(transactions, total, q) ==
    [ transactions |-> transactions, total |-> total,
      limit |-> LimitOf(q), offset |-> OffsetOf(q) ]

ListError == [error |-> "Failed to fetch transactions"]

\* the responses the list route can send when find reads the collection
\* found and countDocuments the collection counted
ListResponsesRead(found, counted, userId, q) ==
    { IF f.ok
      THEN [status |-> 200, body |-> ListBody(f.docs, CountDocuments(counted, userId, q), q)]
      ELSE [status |-> 500, body |-> ListError]
        : f \in FindOutcomes(found, userId, q) }

\* the responses the list route can send for a ledger that no write changes
\* during the call
ListResponses(docs, userId, q) == ListResponsesRead(docs, docs, userId, q)

Query(limit, offset, startDate, endDate, model, conv) ==
    [ limit |-> limit, offset |-> offset, startDate |-> startDate,
      endDate |-> endDate, model |-> model, conversationId |-> conv ]

Queries ==
    { Query(<<>>, <<>>, <<>>, <<>>, <<>>, <<>>),
      Query(<<NumberToString(1)>>, <<NumberToString(1)>>, <<>>, <<>>, <<>>, <<>>),
      Query(<<NumberToString(2)>>, <<NumberToString(0)>>, <<>>, <<>>, <<"gpt-4">>, <<>>),
      Query(<<NumberToString(2000)>>, <<>>, <<>>, <<>>, <<>>, <<"c1">>),
      Query(<<NumberToString(0)>>, <<>>, <<>>, <<>>, <<>>, <<>>),
      Query(<<<<"-", "1">>>>, <<>>, <<>>, <<>>, <<>>, <<>>),
      Query(<<>>, <<<<"-", "1">>>>, <<>>, <<>>, <<>>, <<>>),
      Query(<<<<"a", "l", "l">>>>, <<>>, <<>>, <<>>, <<>>, <<>>),
      Query(<<<<"\t", " ", "1", "p", "x">>>>, <<<<"x">>>>, <<>>, <<>>, <<>>, <<>>),
      Query(<<>>, <<<<"\n", "1">>>>, <<>>, <<>>, <<"">>, <<"">>),
      Query(<<>>, <<>>, <<Instants[2]>>, <<Instants[4]>>, <<>>, <<>>) }

\* the queries of the user whose id is no ObjectId
GuestQueries ==
    { Query(<<>>, <<>>, <<>>, <<>>, <<>>, <<>>),
      Query(<<NumberToString(1)>>, <<NumberToString(1)>>, <<>>, <<>>, <<>>, <<>>) }

(***************************************************************************)
(* The client, the ledger writer and the clock.  The ledger writer runs    *)
(* whenever the event loop is free: before a request and between the       *)
(* awaits of its handler.                                                  *)
(***************************************************************************)
\* the client takes the response
Receive ==
    /\ res # NoResponse
    /\ req' = NoRequest
    /\ res' = NoResponse
    /\ run' = Idle
    /\ UNCHANGED <<ledger, tick, clientVars>>

Write(tx) ==
    /\ res = NoResponse
    /\ Len(ledger) < MaxLedger
    /\ ledger' = Append(ledger, Stored(tx, Len(ledger) + 1, clock))
    /\ UNCHANGED <<tick, req, res, run, clientVars>>

\* the next instant, days after this one: no call is in progress for that long
Tick ==
    /\ req = NoRequest
    /\ tick < Len(Instants)
    /\ tick' = tick + 1
    /\ UNCHANGED <<ledger, req, res, run, clientVars>>

(***************************************************************************)
(* The two handlers query by query.  Each await is a step of its own: the  *)
(* ledger writer runs between them, and each query can reject, which the   *)
(* handler's catch turns into the 500 response.                            *)
(***************************************************************************)
SummaryError == [error |-> "Failed to fetch usage summary"]

\* the handler up to its first await: userId, period, now, startDate, matchStage
SummaryBegin(userId, q) ==
    /\ req = NoRequest
    /\ req' = [op |-> "summary", user |-> userId, period |-> q]
    /\ run' = [pc |-> "aggregation", now |-> clock,
               startDate |-> StartDate(PeriodOf(q), clock), read |-> <<>>]
    /\ UNCHANGED <<ledger, tick, res, clientVars>>

\* A query reads the collection as it is when it runs.  read lists, for the
\* queries of the call that have run, how many records the collection held
\* then; the handler has no such local, it is kept for the properties.
Reading == Append(run.read, Len(ledger))

\* what the $match stage of a running summary selects from the ledger
RunMatched == SelectSeq(ledger, LAMBDA r : MatchStage(r, req.user, run.startDate))

\* const aggregation = await Transaction.aggregate([...])
AwaitAggregation ==
    /\ run.pc = "aggregation"
    /\ run' = [pc |-> "modelBreakdown", now |-> run.now, startDate |-> run.startDate,
               aggregation |-> Aggregation(RunMatched), read |-> Reading]
    /\ UNCHANGED <<ledger, tick, req, res, clientVars>>

\* const modelBreakdown = await Transaction.aggregate([...])
AwaitModelBreakdown ==
    /\ run.pc = "modelBreakdown"
    /\ \E mb \in ModelBreakdowns(RunMatched) :
         run' = [pc |-> "dailyUsage", now |-> run.now, startDate |-> run.startDate,
                 aggregation |-> run.aggregation, modelBreakdown |-> mb,
                 read |-> Reading]
    /\ UNCHANGED <<ledger, tick, req, res, clientVars>>

\* const dailyUsage = await Transaction.aggregate([...]), then the response
AwaitDailyUsage ==
    /\ run.pc = "dailyUsage"
    /\ res' = [status |-> 200,
               body |-> SummaryBody(RawSummary(run.aggregation), PeriodOf(req.period),
                                    run.modelBreakdown, DailyUsage(RunMatched))]
    /\ run' = [pc |-> "returned", now |-> run.now, read |-> Reading]
    /\ UNCHANGED <<ledger, tick, req, clientVars>>

\* the handler up to its first await: the filter
ListBegin(userId, q) ==
    /\ req = NoRequest
    /\ req' = [op |-> "list", user |-> userId, query |-> q]
    /\ run' = [pc |-> "find", read |-> <<>>]
    /\ UNCHANGED <<ledger, tick, res, clientVars>>

\* const transactions = await Transaction.find(filter)...lean(); a skip or
\* limit the store refuses rejects the query
AwaitFind ==
    /\ run.pc = "find"
    /\ \E f \in FindOutcomes(ledger, req.user, req.query) :
         IF f.ok
         THEN /\ run' = [pc |-> "countDocuments", transactions |-> f.docs,
                         read |-> Reading]
              /\ res' = res
         ELSE /\ run' = [pc |-> "caught", failed |-> "find", error |-> "refused",
                         read |-> Reading]
              /\ res' = [status |-> 500, body |-> ListError]
    /\ UNCHANGED <<ledger, tick, req, clientVars>>

\* const total = await Transaction.countDocuments(filter), then the response
AwaitCountDocuments ==
    /\ run.pc = "countDocuments"
    /\ res' = [status |-> 200,
               body |-> ListBody(run.transactions,
                                 CountDocuments(ledger, req.user, req.query), req.query)]
    /\ run' = [pc |-> "returned", read |-> Reading]
    /\ UNCHANGED <<ledger, tick, req, clientVars>>

Awaited == {"aggregation", "modelBreakdown", "dailyUsage", "find", "countDocuments"}

\* faulty variant: a summary whose query fails is answered with what it has
QueryFailsPartial ==
    /\ run.pc \in Awaited
    /\ run' = [pc |-> "caught", failed |-> run.pc, error |-> "unavailable",
               read |-> run.read]
    /\ res' = IF req.op = "list"
              THEN [status |-> 500, body |-> ListError]
              ELSE [status |-> 200,
                    body |-> SummaryBody(RawSummary(<<>>), PeriodOf(req.period), <<>>, <<>>)]
    /\ UNCHANGED <<ledger, tick, req, clientVars>>

\* the awaited query rejects (transport or storage error): catch (error)
QueryFails ==
    /\ run.pc \in Awaited
    /\ run' = [pc |-> "caught", failed |-> run.pc, error |-> "unavailable",
               read |-> run.read]
    /\ res' = IF req.op = "list"
              THEN [status |-> 500, body |-> ListError]
              ELSE [status |-> 500, body |-> SummaryError]
    /\ UNCHANGED <<ledger, tick, req, clientVars>>

(***************************************************************************)
(* A long ledger of simple records, for the page of the list route and the *)
(* top ten of the per-model aggregation.                                   *)
(***************************************************************************)
ModelNames ==
    << "m01", "m02", "m03", "m04", "m05", "m06", "m07", "m08",
       "m09", "m10", "m11", "m12", "m13", "m14", "m15", "m16" >>

\* the token amounts of successive records, all different
BigTokens(i) == ((i * 5) % 13) + 1

Ties(docs) == Cardinality({i \in 2..Len(docs) : docs[i].createdAt = docs[i - 1].createdAt})
Others(docs) == Cardinality({i \in 1..Len(docs) : docs[i].user.id # Alice})

\* a completion of a model not used before, a second later
WriteFresh ==
    /\ res = NoResponse
    /\ Len(ledger) < MaxBig
    /\ tick' = tick + 1
    /\ ledger' = Append(ledger,
           Stored(Tx(IF Len(ledger) % 2 = 0 THEN StringUser(Alice) ELSE ObjectIdUser(Alice),
                     "completion", <<-BigTokens(Len(ledger))>>, <<>>, <<>>, <<>>,
                     <<-2 * BigTokens(Len(ledger))>>, <<ModelNames[Len(ledger) + 1]>>, <<"c1">>),
                  Len(ledger) + 1, InstantAt(tick + 1)))
    /\ UNCHANGED <<req, res, run, clientVars>>

\* a prompt of the model of the record before it, in the same second
WriteSame ==
    /\ res = NoResponse
    /\ Len(ledger) < MaxBig
    /\ ledger # <<>>
    /\ Ties(ledger) < MaxTies
    /\ ledger' = Append(ledger,
           Stored(Tx(StringUser(Alice), "prompt", <<-3>>, <<-2>>, <<>>, <<-1>>,
                     <<-6>>, ledger[Len(ledger)].model, <<"c2">>),
                  Len(ledger) + 1, clock))
    /\ UNCHANGED <<tick, req, res, run, clientVars>>

\* a record of another user, a second later
WriteOther ==
    /\ res = NoResponse
    /\ Len(ledger) < MaxBig
    /\ Others(ledger) < MaxOthers
    /\ tick' = tick + 1
    /\ ledger' = Append(ledger,
           Stored(Tx(ObjectIdUser(Bob), "completion", <<-40>>, <<>>, <<>>, <<>>,
                     <<-80>>, <<ModelNames[1]>>, <<"c3">>),
                  Len(ledger) + 1, InstantAt(tick + 1)))
    /\ UNCHANGED <<req, res, run, clientVars>>

BigPeriods == {<<>>, <<"all">>}

BigQueries ==
    { Query(<<NumberToString(5)>>, <<NumberToString(5)>>, <<>>, <<>>, <<>>, <<>>),
      Query(<<NumberToString(3)>>, <<NumberToString(10)>>, <<>>, <<>>, <<>>, <<>>),
      Query(<<NumberToString(1000)>>, <<NumberToString(1)>>, <<>>, <<>>, <<>>, <<"c1">>),
      Query(<<>>, <<>>, <<>>, <<>>, <<>>, <<>>) }

(***************************************************************************)
(* The browser: the StreamingStats component in its two versions           *)
(* (isSubmitting with the display preference, and isFinished).  Times are  *)
(* milliseconds of Date.now().  A render, the effects of that render and   *)
(* the render that the state they set asks for are steps of their own:     *)
(* the clock, the interval callback and the toggle can act between them.   *)
(* The effects of a render run in the order of their declaration, those of *)
(* which a dependency differs from the render before.                      *)
(***************************************************************************)
IntervalMs == 200
HorizonMs == 2000
MinDurationMs == 500
CharsPerToken == 4

\* the grain of the browser clock
StepMs == IntervalMs \div 2
StartMs == 10 * StepMs

WithPreference == "isSubmitting"
WithIsFinished == "isFinished"
Variants == {WithPreference, WithIsFinished}

\* A string of n characters; k tells the strings of one length apart.
Text(n, k) == [length |-> n, content |-> k]

\* Math.ceil(text.length / 4), 0 for the empty text
estimateTokens(text) ==
    IF text.length = 0 THEN 0 ELSE (text.length + CharsPerToken - 1) \div CharsPerToken

RECURSIVE Pow2(_)
Pow2(k) == IF k = 0 THEN 1 ELSE 2 * Pow2(k - 1)

\* 2^k modulo 1000
RECURSIVE Pow2Mod1000(_)
Pow2Mod1000(k) == IF k = 0 THEN 1 ELSE (2 * Pow2Mod1000(k - 1)) % 1000

RECURSIVE ExponentUp(_, _, _)
ExponentUp(n, d, f) == IF n < d * Pow2(f + 1) THEN f ELSE ExponentUp(n, d, f + 1)

RECURSIVE ExponentDown(_, _, _)
ExponentDown(n, d, g) == IF n * Pow2(g) >= d THEN 0 - g ELSE ExponentDown(n, d, g + 1)

\* the binary exponent of the double n / d (n, d > 0): floor(log2(n / d))
Exponent(n, d) == IF n >= d THEN ExponentUp(n, d, 0) ELSE ExponentDown(n, d, 1)

\* Math.round(tokens / (ms / 1000)) for ms > 0, in the double arithmetic of
\* the code.  Math.round takes halves up, and the two divisions are each
\* rounded to 53 bits: ms / 1000 is off by the remainder r of ms * 2^s by
\* 1000 (s the scale of its mantissa), which the second division carries
\* over.  The errors are far smaller than the distance of any other quotient
\* to a half, so only a quotient that is exactly k + 1/2 can come out on the
\* other side: it does when ms / 1000 was rounded away from it by more than
\* half a unit in the last place of k + 1/2.
MathRound(tokens, ms) ==
    LET p == 2000 * tokens
        halfUp == (p + ms) \div (2 * ms)
        odd == p \div ms
        mag == IF odd < 0 THEN 0 - odd ELSE odd
        f == Exponent(ms, 1000)
        e == Exponent(mag, 2)
        r == (ms * Pow2Mod1000(52 - f)) % 1000
        Exceeds(l) == IF f >= e THEN l * Pow2(f - e) > ms ELSE l > ms * Pow2(e - f)
        Reaches(l) == IF f >= e THEN l * Pow2(f - e) >= ms ELSE l >= ms * Pow2(e - f)
        below == IF odd > 0
                 THEN r > 500 /\ Exceeds(mag * (1000 - r) * (IF mag = 1 THEN 2 ELSE 1))
                 ELSE r > 0 /\ r < 500 /\ Reaches(mag * r)
    IN IF p % ms = 0 /\ odd % 2 = 1 /\ below THEN halfUp - 1 ELSE halfUp

\* faulty variant: the history is not filtered
calculateTpsUnfiltered(history, text, t) ==
    LET kept == Append(history, [time |-> t, tokens |-> estimateTokens(text)])
        oldest == kept[1]
        newest == kept[Len(kept)]
    IN [ history |-> kept,
         tps |-> IF Len(kept) < 2 THEN 0
                 ELSE IF newest.time - oldest.time <= 0 THEN 0
                 ELSE MathRound(newest.tokens - oldest.tokens, newest.time - oldest.time) ]

\* calculateTps at time t: the history after the push and the filter, and
\* the value returned
calculateTps(history, text, t) ==
    LET pushed == Append(history, [time |-> t, tokens |-> estimateTokens(text)])
        kept == SelectSeq(pushed, LAMBDA h : h.time > t - HorizonMs)
        oldest == kept[1]
        newest == kept[Len(kept)]
    IN [ history |-> kept,
         tps |-> IF Len(kept) < 2 THEN 0
                 ELSE IF newest.time - oldest.time <= 0 THEN 0
                 ELSE MathRound(newest.tokens - oldest.tokens, newest.time - oldest.time) ]

\* The component c holds the props of its last render, its state as the
\* setters left it, the state useState returned to the last render, its
\* refs, the armed interval with the text its callback closes over, and
\* whether the effects of the last render are still to run.

\* the state of the component as it was last set
StateOf(c) ==
    [ tokensPerSecond |-> c.tokensPerSecond, finalStats |-> c.finalStats,
      hasStartedStreaming |-> c.hasStartedStreaming ]

\* the last render as its closures hold it: its props and the state
\* useState returned to it
Closure(c) ==
    [c EXCEPT !.tokensPerSecond = c.useState.tokensPerSecond,
              !.finalStats = c.useState.finalStats,
              !.hasStartedStreaming = c.useState.hasStartedStreaming]

\* what the dependency arrays of the effects are compared on (calculateTps
\* is a new function when the text is another string)
DepsOf(r) ==
    [ text |-> r.text, isSubmitting |-> r.isSubmitting,
      isLatestMessage |-> r.isLatestMessage, isFinished |-> r.isFinished,
      hasStartedStreaming |-> r.hasStartedStreaming ]

\* an effect runs after the first render and when one of its dependencies changed
Changed(r, fields) == r.deps = <<>> \/ \E f \in fields : r.deps[1][f] # DepsOf(r)[f]

\* In the effects r is the render (props and state of its closure) and a
\* the component as the effects before left it (refs, state that was set).

\* Listen for toggle changes: addEventListener after the first render
ListenEffect(r, a, t) == IF r.deps # <<>> THEN a ELSE [a EXCEPT !.listening = TRUE]

\* Detect streaming start
StartEffect(r, a, t) ==
    IF ~Changed(r, {"isSubmitting", "isLatestMessage", "text", "hasStartedStreaming"}) THEN a
    ELSE IF /\ r.isSubmitting /\ r.isLatestMessage /\ r.text.length > a.prevTextLengthRef
            /\ ~r.hasStartedStreaming
         THEN [a EXCEPT !.hasStartedStreaming = TRUE, !.startTimeRef = <<t>>,
                        !.tokenHistoryRef = <<>>, !.finalStats = <<>>,
                        !.prevTextLengthRef = r.text.length]
         ELSE [a EXCEPT !.prevTextLengthRef = r.text.length]

\* Update TPS during streaming: the cleanup clears the interval, the effect
\* sets a new one, whose callback holds the calculateTps of this render
IntervalEffect(r, a, t) ==
    IF ~Changed(r, {"hasStartedStreaming", "isSubmitting", "text"}) THEN a
    ELSE [a EXCEPT !.interval = IF r.hasStartedStreaming /\ r.isSubmitting
                                 THEN <<[due |-> t + IntervalMs, text |-> r.text]>> ELSE <<>>]

\* the stats of a finished generation; the duration is kept in milliseconds
FinalStats(text, startTimeRef, t) ==
    LET duration == IF startTimeRef # <<>> THEN t - startTimeRef[1] ELSE 0
        totalTokens == estimateTokens(text)
    IN IF duration > MinDurationMs /\ totalTokens > 0
       THEN << [ tps |-> MathRound(totalTokens, duration),
                 totalTokens |-> totalTokens, duration |-> duration ] >>
       ELSE <<>>

\* faulty variant: the live rate is left as the last tick set it
CompletionEffectStaleRate(r, a, t) ==
    IF ~Changed(r, {"isSubmitting", "hasStartedStreaming", "text"}) THEN a
    ELSE IF /\ a.wasSubmittingRef /\ ~r.isSubmitting /\ r.hasStartedStreaming
            /\ r.text.length # 0
         THEN [a EXCEPT !.finalStats = IF FinalStats(r.text, a.startTimeRef, t) # <<>>
                                        THEN FinalStats(r.text, a.startTimeRef, t) ELSE @,
                        !.hasStartedStreaming = FALSE,
                        !.startTimeRef = <<>>, !.tokenHistoryRef = <<>>,
                        !.wasSubmittingRef = r.isSubmitting]
         ELSE [a EXCEPT !.wasSubmittingRef = r.isSubmitting]

\* Handle streaming completion
CompletionEffect(r, a, t) ==
    IF ~Changed(r, {"isSubmitting", "hasStartedStreaming", "text"}) THEN a
    ELSE IF /\ a.wasSubmittingRef /\ ~r.isSubmitting /\ r.hasStartedStreaming
            /\ r.text.length # 0
         THEN [a EXCEPT !.finalStats = IF FinalStats(r.text, a.startTimeRef, t) # <<>>
                                        THEN FinalStats(r.text, a.startTimeRef, t) ELSE @,
                        !.hasStartedStreaming = FALSE, !.tokensPerSecond = 0,
                        !.startTimeRef = <<>>, !.tokenHistoryRef = <<>>,
                        !.wasSubmittingRef = r.isSubmitting]
         ELSE [a EXCEPT !.wasSubmittingRef = r.isSubmitting]

\* The version with isFinished (its state isStreaming is the field
\* hasStartedStreaming here; its finalStats has no duration).

\* Start tracking when streaming begins
StartEffectFinished(r, a, t) ==
    IF ~Changed(r, {"isSubmitting", "isLatestMessage", "isFinished"}) THEN a
    ELSE IF r.isSubmitting /\ r.isLatestMessage /\ ~r.isFinished
         THEN IF a.startTimeRef = <<>>
              THEN [a EXCEPT !.startTimeRef = <<t>>, !.tokenHistoryRef = <<>>,
                             !.finalStats = <<>>, !.hasStartedStreaming = TRUE]
              ELSE [a EXCEPT !.hasStartedStreaming = TRUE]
         ELSE a

\* Update TPS during streaming
IntervalEffectFinished(r, a, t) ==
    IF ~Changed(r, {"hasStartedStreaming", "isFinished", "text"}) THEN a
    ELSE [a EXCEPT !.interval = IF r.hasStartedStreaming /\ ~r.isFinished
                                 THEN <<[due |-> t + IntervalMs, text |-> r.text]>> ELSE <<>>]

FinalStatsFinished(text, startTimeRef, t) ==
    LET totalTime == IF startTimeRef # <<>> THEN t - startTimeRef[1] ELSE 0
        totalTokens == estimateTokens(text)
    IN IF totalTime > 0 /\ totalTokens > 0
       THEN << [tps |-> MathRound(totalTokens, totalTime), totalTokens |-> totalTokens] >>
       ELSE <<>>

\* Handle streaming completion
CompletionEffectFinished(r, a, t) ==
    IF ~Changed(r, {"isFinished", "isSubmitting", "text", "hasStartedStreaming"}) THEN a
    ELSE IF r.hasStartedStreaming /\ (r.isFinished \/ (~r.isSubmitting /\ r.text.length # 0))
         THEN [a EXCEPT !.finalStats = IF FinalStatsFinished(r.text, a.startTimeRef, t) # <<>>
                                        THEN FinalStatsFinished(r.text, a.startTimeRef, t) ELSE @,
                        !.hasStartedStreaming = FALSE,
                        !.startTimeRef = <<>>, !.tokenHistoryRef = <<>>]
         ELSE a

\* Reset when message changes
ResetEffect(r, a, t) ==
    IF ~Changed(r, {"isLatestMessage"}) THEN a
    ELSE IF ~r.isLatestMessage
         THEN [a EXCEPT !.hasStartedStreaming = FALSE, !.tokensPerSecond = 0,
                        !.startTimeRef = <<>>, !.tokenHistoryRef = <<>>]
         ELSE a

\* the effects of the last render of c, run at time t in the order of
\* their declaration
Pass(c, t) ==
    LET r == Closure(c)
        a == IF c.variant = WithPreference
             THEN CompletionEffect(r,
                      IntervalEffect(r, StartEffect(r, ListenEffect(r, c, t), t), t), t)
             ELSE ResetEffect(r,
                      CompletionEffectFinished(r,
                          IntervalEffectFinished(r, StartEffectFinished(r, c, t), t), t), t)
    IN [a EXCEPT !.deps = <<DepsOf(r)>>, !.effects = FALSE]

NoState == [tokensPerSecond |-> 0, finalStats |-> <<>>, hasStartedStreaming |-> FALSE]

\* the component before it is mounted
Fresh(variant) ==
    [ variant |-> variant, mounted |-> FALSE,
      text |-> Text(0, 0), isSubmitting |-> FALSE, isLatestMessage |-> FALSE,
      isFinished |-> FALSE,
      tokensPerSecond |-> 0, finalStats |-> <<>>, hasStartedStreaming |-> FALSE,
      showTokens |-> TRUE, useState |-> NoState,
      startTimeRef |-> <<>>, prevTextLengthRef |-> 0, tokenHistoryRef |-> <<>>,
      wasSubmittingRef |-> FALSE,
      interval |-> <<>>, listening |-> FALSE, deps |-> <<>>, effects |-> FALSE ]

WithProps(c, p) ==
    [c EXCEPT !.text = p.text, !.isSubmitting = p.isSubmitting,
              !.isLatestMessage = p.isLatestMessage, !.isFinished = p.isFinished]

PropsOf(c) ==
    [ text |-> c.text, isSubmitting |-> c.isSubmitting,
      isLatestMessage |-> c.isLatestMessage, isFinished |-> c.isFinished ]

\* only the isFinished version has the prop isFinished
PropsSet(variant, texts) ==
    [ text : texts, isSubmitting : BOOLEAN, isLatestMessage : BOOLEAN,
      isFinished : IF variant = WithIsFinished THEN BOOLEAN ELSE {FALSE} ]

\* what the last render of the component returned: the live rate, the final
\* stats or null
Rendered(c) ==
    IF c.variant = WithPreference
    THEN IF ~c.showTokens THEN "null"
         ELSE IF /\ c.useState.hasStartedStreaming /\ c.isSubmitting
                 /\ c.useState.tokensPerSecond > 0 THEN "live"
         ELSE IF c.useState.finalStats # <<>> /\ c.isLatestMessage /\ ~c.isSubmitting
              THEN "final"
         ELSE "null"
    ELSE IF c.useState.hasStartedStreaming /\ c.useState.tokensPerSecond > 0 THEN "live"
         ELSE IF c.useState.finalStats # <<>> /\ ~c.useState.hasStartedStreaming THEN "final"
         ELSE "null"

\* the texts the parent passes: two of them have the same length
Texts == {Text(0, 0), Text(2, 0), Text(2, 1), Text(28, 0)}

\* localStorage.getItem(TOKEN_DISPLAY_KEY) !== 'false'
ReadPreference(stored) == stored # <<"false">>

\* the component is rendered for the first time, with props p: useState
\* reads the preference; the effects are still to run
Mount(p) ==
    /\ ~stats.mounted
    /\ stats' = [WithProps(Fresh(stats.variant), p) EXCEPT
                     !.mounted = TRUE,
                     !.showTokens = IF stats.variant = WithPreference
                                    THEN ReadPreference(storage) ELSE TRUE,
                     !.effects = TRUE]
    /\ UNCHANGED <<serverVars, cadence, nowMs, storage, toggle, displays>>

\* the parent renders the component with other props; the effects of the
\* render before have run by then, and the state that was set is rendered
\* with the props
Render(p) ==
    /\ stats.mounted
    /\ ~stats.effects
    /\ p # PropsOf(stats)
    /\ stats' = [WithProps(stats, p) EXCEPT !.useState = StateOf(stats), !.effects = TRUE]
    /\ UNCHANGED <<serverVars, cadence, nowMs, storage, toggle, displays>>

\* the component renders again because its state was set
Rerender ==
    /\ stats.mounted
    /\ ~stats.effects
    /\ stats.useState # StateOf(stats)
    /\ stats' = [stats EXCEPT !.useState = StateOf(stats), !.effects = TRUE]
    /\ UNCHANGED <<serverVars, cadence, nowMs, storage, toggle, displays>>

\* the effects of the last render run
Effects ==
    /\ stats.mounted
    /\ stats.effects
    /\ stats' = Pass(stats, nowMs)
    /\ UNCHANGED <<serverVars, cadence, nowMs, storage, toggle, displays>>

\* the component is removed: the cleanups run, state and refs are gone
Unmount ==
    /\ stats.mounted
    /\ stats' = Fresh(stats.variant)
    /\ UNCHANGED <<serverVars, cadence, nowMs, storage, toggle, displays>>

\* The timer counts whole milliseconds of a clock of its own, Date.now()
\* those of the wall clock: a callback may read a Date.now() one below the
\* instant at which it is due
SkewMs == 1

\* setInterval(..., 200) runs its callback when it is due or later; due is
\* an instant of the timer's clock.  The callback after one that read t is
\* due one period after it ran, or at the next instant of the schedule the
\* interval was set on: platforms differ
NextDue(due, t) ==
    IF t < due THEN { due + IntervalMs }
    ELSE { t + IntervalMs, due + IntervalMs * ((t - due) \div IntervalMs + 1) }

\* the callback of setInterval: calculateTps(), setTokensPerSecond(tps); it
\* reads the clock when it runs
IntervalFires ==
    /\ stats.interval # <<>>
    /\ stats.interval[1].due - SkewMs <= nowMs
    /\ \E next \in NextDue(stats.interval[1].due, nowMs) :
          LET c == calculateTps(stats.tokenHistoryRef, stats.interval[1].text, nowMs)
          IN stats' = [stats EXCEPT !.tokenHistoryRef = c.history, !.tokensPerSecond = c.tps,
                                    !.interval = <<[@[1] EXCEPT !.due = next]>>]
    /\ UNCHANGED <<serverVars, cadence, nowMs, storage, toggle, displays>>

\* Date.now() is any millisecond: the clock is read at the instants of a
\* grid, at one instant off the grid, and when the callback of the interval
\* may first run and when it is due
OffGridMs == StartMs + 5 * StepMs + (3 * StepMs) \div 5

\* the instant of the grid after t
NextStep(t) == StartMs + StepMs * ((t - StartMs) \div StepMs + 1)

\* the instants after t at which the clock is read
Later(t, interval, others) ==
    { x \in {NextStep(t)} \cup others
              \cup { interval[i].due - SkewMs : i \in 1..Len(interval) }
              \cup { interval[i].due : i \in 1..Len(interval) } : x > t }

\* the instants at which the parent renders or unmounts the component
Prompted(t) == (t - StartMs) % StepMs = 0 \/ t = OffGridMs

\* time passes until the clock is read next, also past the instant at which
\* an interval is due.  The effects of a render, and the render that follows
\* a set state, have run before the clock moves on; they may run before or
\* after a callback of the interval that is due in their instant
Advance ==
    /\ ~stats.effects
    /\ stats.mounted => stats.useState = StateOf(stats)
    /\ \E next \in Later(nowMs, stats.interval, {OffGridMs}) :
          /\ \A x \in Later(nowMs, stats.interval, {OffGridMs}) : next <= x
          /\ next <= StartMs + MaxShort * StepMs
          /\ nowMs' = next
    /\ UNCHANGED <<serverVars, cadence, storage, toggle, displays, stats>>

(***************************************************************************)
(* One generation whose text grows steadily: 400 characters in the 2       *)
(* seconds after StartMs, one character per 5 ms.  The chunks of a         *)
(* generation arrive at one cadence, 100, 200 or 400 ms apart, and each    *)
(* renders the component with the text of the moment.                      *)
(***************************************************************************)
SteadyLength(t) == IF t - StartMs >= 2000 THEN 400 ELSE (t - StartMs) \div 5
SteadyText(t) == Text(SteadyLength(t), 0)

Cadences == {IntervalMs \div 2, IntervalMs, 2 * IntervalMs}

\* the moment of the chunk that brought the text of c
LastChunk(c) == StartMs + 5 * c.text.length

\* the message of the generation: latest, producing, still empty
SteadyProps == [text |-> Text(0, 0), isSubmitting |-> TRUE, isLatestMessage |-> TRUE, isFinished |-> FALSE]

\* a chunk arrives: the component is rendered with the longer text
Chunk(every) ==
    /\ stats.isSubmitting
    /\ ~stats.effects
    /\ SteadyText(nowMs) # stats.text
    /\ nowMs - LastChunk(stats) = every
    /\ (LastChunk(stats) - StartMs) % every = 0
    /\ stats' = [stats EXCEPT !.text = SteadyText(nowMs), !.useState = StateOf(stats),
                              !.effects = TRUE]
    /\ UNCHANGED <<serverVars, cadence, nowMs, storage, toggle, displays>>

\* the generation ends with the whole text: isSubmitting goes false
Stop ==
    /\ stats.isSubmitting
    /\ ~stats.effects
    /\ stats.text.length = 400
    /\ stats' = [stats EXCEPT !.isSubmitting = FALSE, !.useState = StateOf(stats),
                              !.effects = TRUE]
    /\ UNCHANGED <<serverVars, cadence, nowMs, storage, toggle, displays>>

\* time passes until the clock is read next, not past the latest moment of
\* the next chunk.  In this scenario the browser is idle between the chunks:
\* the effects of a render, and the render that follows a set state, have run
\* before the clock moves on; a callback of the interval may run late
Wait ==
    /\ ~stats.effects
    /\ stats.useState = StateOf(stats)
    /\ \E next \in Later(nowMs, stats.interval, {}) :
          /\ \A x \in Later(nowMs, stats.interval, {}) : next <= x
          /\ next <= StartMs + MaxSteps * StepMs
          /\ stats.text.length # 400 => next - LastChunk(stats) <= 2 * IntervalMs
          /\ nowMs' = next
    /\ UNCHANGED <<serverVars, cadence, storage, toggle, displays, stats>>

(***************************************************************************)
(* The display preference: TokenDisplayToggle of the usage page, and the   *)
(* MessageTokens components that listen to it as StreamingStats does.      *)
(***************************************************************************)
MessageIds == {"m1", "m2"}

\* what the browser has stored when the page loads: nothing, or the enabled
\* preference of an earlier session (the disabled one is reached by the toggle)
StorageValues == {<<>>, <<"true">>}

\* String(newValue)
BooleanToString(b) == IF b THEN "true" ELSE "false"

\* a component that is not mounted; listening says that its
\* tokenDisplayChange listener is registered
NoDisplay == [mounted |-> FALSE, showTokens |-> TRUE, listening |-> FALSE]

\* TokenDisplayToggle registers no listener
MountToggle ==
    /\ ~toggle.mounted
    /\ toggle' = [mounted |-> TRUE, showTokens |-> ReadPreference(storage),
                  listening |-> FALSE]
    /\ UNCHANGED <<serverVars, cadence, nowMs, storage, displays, stats>>

UnmountToggle ==
    /\ toggle.mounted
    /\ toggle' = NoDisplay
    /\ UNCHANGED <<serverVars, cadence, nowMs, storage, displays, stats>>

\* MessageTokens is rendered for the first time: useState reads the
\* preference; the effect that registers the listener is still to run
MountTokens(m) ==
    /\ ~displays[m].mounted
    /\ displays' = [displays EXCEPT ![m] = [mounted |-> TRUE,
                                            showTokens |-> ReadPreference(storage),
                                            listening |-> FALSE]]
    /\ UNCHANGED <<serverVars, cadence, nowMs, storage, toggle, stats>>

\* the effect of MessageTokens: addEventListener
TokensEffect(m) ==
    /\ displays[m].mounted
    /\ ~displays[m].listening
    /\ displays' = [displays EXCEPT ![m].listening = TRUE]
    /\ UNCHANGED <<serverVars, cadence, nowMs, storage, toggle, stats>>

UnmountTokens(m) ==
    /\ displays[m].mounted
    /\ displays' = [displays EXCEPT ![m] = NoDisplay]
    /\ UNCHANGED <<serverVars, cadence, nowMs, storage, toggle, stats>>

\* the messages of the conversation in the order of flattenMessages, and
\* their tokenCount (0 when absent)
FlatMessages == <<"m1", "m2">>
TokenCount(m) == IF m = "m2" THEN 12 ELSE 0

\* the sum of the token counts up to and including message m
RECURSIVE calculateCumulativeTokens(_, _)
calculateCumulativeTokens(msgs, m) ==
    IF msgs = <<>> THEN 0
    ELSE IF Head(msgs) = m THEN TokenCount(m)
    ELSE TokenCount(Head(msgs)) + calculateCumulativeTokens(Tail(msgs), m)

\* MessageTokens returns an element, not null
TokensRendered(d, m) ==
    /\ d.mounted
    /\ ~(~d.showTokens \/ (TokenCount(m) = 0 /\ calculateCumulativeTokens(FlatMessages, m) = 0))

\* the tokenDisplayChange listener of a component, once registered:
\* setShowTokens(e.detail)
handleChange(d, detail) ==
    IF d.mounted /\ d.listening THEN [d EXCEPT !.showTokens = detail] ELSE d

\* handleToggle: setShowTokens, localStorage.setItem, dispatchEvent.  The
\* state set during the click is rendered before anything else happens.
HandleToggle ==
    /\ toggle.mounted
    /\ LET newValue == ~toggle.showTokens
       IN /\ toggle' = [toggle EXCEPT !.showTokens = newValue]
          /\ storage' = <<BooleanToString(newValue)>>
          /\ displays' = [m \in MessageIds |-> handleChange(displays[m], newValue)]
          /\ stats' = IF stats.variant = WithPreference
                      THEN handleChange(stats, newValue) ELSE stats
    /\ UNCHANGED <<serverVars, cadence, nowMs>>

InitClient ==
    /\ nowMs = StartMs
    /\ cadence = IntervalMs
    /\ storage = <<>>
    /\ toggle = NoDisplay
    /\ displays = [m \in MessageIds |-> NoDisplay]
    /\ stats = Fresh(WithPreference)

InitServer ==
    /\ ledger = <<>>
    /\ tick = 1
    /\ req = NoRequest
    /\ res = NoResponse
    /\ run = Idle

Init ==
    /\ InitServer
    /\ InitClient

\* either version of StreamingStats, not yet mounted
InitRate ==
    /\ InitServer
    /\ nowMs = StartMs
    /\ cadence = IntervalMs
    /\ storage = <<>>
    /\ toggle = NoDisplay
    /\ displays = [m \in MessageIds |-> NoDisplay]
    /\ \E v \in Variants : stats = Fresh(v)

\* the StreamingStats of lines 36-176, mounted for the message of a generation
\* whose chunks arrive at one cadence
InitSteady ==
    /\ InitServer
    /\ nowMs = StartMs
    /\ cadence \in Cadences
    /\ storage = <<>>
    /\ toggle = NoDisplay
    /\ displays = [m \in MessageIds |-> NoDisplay]
    /\ stats = [WithProps(Fresh(WithPreference), SteadyProps) EXCEPT !.mounted = TRUE, !.effects = TRUE]

\* the preference as a session before left it
InitToggle ==
    /\ InitServer
    /\ nowMs = StartMs
    /\ cadence = IntervalMs
    /\ storage \in StorageValues
    /\ toggle = NoDisplay
    /\ displays = [m \in MessageIds |-> NoDisplay]
    /\ stats = Fresh(WithPreference)

Next ==
    \/ \E tx \in Written : Write(tx)
    \/ Tick
    \/ \E q \in Periods : SummaryBegin(Alice, q)
    \/ \E q \in GuestPeriods : SummaryBegin(Guest, q)
    \/ AwaitAggregation
    \/ AwaitModelBreakdown
    \/ AwaitDailyUsage
    \/ \E q \in Queries : ListBegin(Alice, q)
    \/ \E q \in GuestQueries : ListBegin(Guest, q)
    \/ AwaitFind
    \/ AwaitCountDocuments
    \/ QueryFails
    \/ Receive

Spec == Init /\ [][Next]_vars

NextBig ==
    \/ WriteFresh
    \/ WriteSame
    \/ WriteOther
    \/ \E q \in BigPeriods : SummaryBegin(Alice, q)
    \/ AwaitAggregation
    \/ AwaitModelBreakdown
    \/ AwaitDailyUsage
    \/ \E q \in BigQueries : ListBegin(Alice, q)
    \/ AwaitFind
    \/ AwaitCountDocuments
    \/ QueryFails
    \/ Receive

SpecBig == Init /\ [][NextBig]_vars

\* the parent mounts, renders and unmounts the component at the instants of
\* Prompted; effects, re-renders and callbacks of the interval run at any
\* instant of the clock
NextRate ==
    \/ Prompted(nowMs) /\ \E p \in PropsSet(stats.variant, Texts) : Mount(p)
    \/ Prompted(nowMs) /\ \E p \in PropsSet(stats.variant, Texts) : Render(p)
    \/ Effects
    \/ Rerender
    \/ Prompted(nowMs) /\ Unmount
    \/ IntervalFires
    \/ Advance

SpecRate == InitRate /\ [][NextRate]_vars

\* the chunks of the generation arrive at its cadence
NextSteady ==
    \/ Chunk(cadence)
    \/ Stop
    \/ Effects
    \/ Rerender
    \/ IntervalFires
    \/ Wait

SpecSteady == InitSteady /\ [][NextSteady]_vars

NextToggle ==
    \/ MountToggle
    \/ UnmountToggle
    \/ HandleToggle
    \/ \E m \in MessageIds : MountTokens(m)
    \/ \E m \in MessageIds : TokensEffect(m)
    \/ \E m \in MessageIds : UnmountTokens(m)
    \/ \E p \in PropsSet(stats.variant, Texts) : Mount(p)
    \/ Effects
    \/ Rerender
    \/ Unmount

SpecToggle == InitToggle /\ [][NextToggle]_vars

(***************************************************************************)
(* What the claims speak of, stated without the route's own expressions.   *)
(***************************************************************************)
RECURSIVE SumSet(_, _)
SumSet(S, f) ==
    IF S = {} THEN 0
    ELSE LET x == CHOOSE y \in S : TRUE IN f[x] + SumSet(S \ {x}, f)

Min(a, b) == IF a < b THEN a ELSE b
Max(a, b) == IF a > b THEN a ELSE b

\* |field|, 0 for a missing field
Magnitude(f) == IF f = <<>> THEN 0 ELSE IF f[1] < 0 THEN -f[1] ELSE f[1]

\* the records of a user, whichever form their user field has
OwnedBy(userId) == {i \in 1..Len(ledger) : ledger[i].user.id = userId}

\* The ledger is appended to only.  What the n-th query of the call read is
\* the ledger up to the record ReadBy(n).
ReadBy(n) ==
    IF "read" \in DOMAIN run /\ n <= Len(run.read) THEN run.read[n] ELSE Len(ledger)

\* the ledger the n-th query read, without the records of the other users
OwnLedger(userId, n) ==
    SelectSeq(SubSeq(ledger, 1, ReadBy(n)), LAMBDA r : r.user.id = userId)

\* a query of the call was rejected by the store for a reason that is not in
\* the request
Rejected == run.pc = "caught" /\ run.error = "unavailable"

\* the call has been answered and none of its queries was rejected
Answered == res # NoResponse /\ ~Rejected

NamedPeriods == {<<"day">>, <<"week">>, <<"month">>, <<"all">>}

\* the length of a named period; an absent or unknown period counts as month
Delta(q) ==
    IF q = <<"day">> THEN 24 * 3600
    ELSE IF q = <<"week">> THEN 7 * 24 * 3600
    ELSE 30 * 24 * 3600

\* the records of the requester in the window of the request, as the n-th
\* aggregation read them
CountedBy(n) ==
    {i \in OwnedBy(req.user) :
        /\ i <= ReadBy(n)
        /\ req.period = <<"all">> \/ ledger[i].createdAt >= run.now - Delta(req.period)}

\* what the totals, the per-model breakdown and the daily series count
Counted == CountedBy(1)
Grouped == CountedBy(2)
Dated == CountedBy(3)

\* the per-record tiered prompt amount
TieredPrompt(r) ==
    LET structured == Magnitude(r.inputTokens) + Magnitude(r.writeTokens) + Magnitude(r.readTokens)
    IN IF structured > 0 THEN structured ELSE Magnitude(r.rawAmount)

PromptRows(S) == {i \in S : ledger[i].tokenType = "prompt"}
CompletionRows(S) == {i \in S : ledger[i].tokenType = "completion"}

SummaryServed == req.op = "summary" /\ res.status = 200
ListServed == req.op = "list" /\ res.status = 200

(***************************************************************************)
(* C1: promptTokens of the summary is the sum, over the prompt records     *)
(* matched, of the per-record tiered amount (the structured sum when it is *)
(* > 0, else |rawAmount|), also for a ledger that mixes raw-only and       *)
(* structured prompt records.                                              *)
(***************************************************************************)
C1_PromptTokensPerRecord ==
    SummaryServed =>
        res.body.promptTokens =
            SumSet(PromptRows(Counted), [i \in PromptRows(Counted) |-> TieredPrompt(ledger[i])])

(***************************************************************************)
(* C2, as claimed: the summary of a named period counts only the records   *)
(* of the user with createdAt in [now - delta, now).                       *)
(***************************************************************************)
C2_HalfOpenWindow ==
    (SummaryServed /\ req.period \in NamedPeriods) =>
        res.body.transactionCount =
            Cardinality({i \in OwnedBy(req.user) :
                /\ i <= ReadBy(1)
                /\ req.period = <<"all">>
                   \/ (ledger[i].createdAt >= run.now - Delta(req.period)
                       /\ ledger[i].createdAt < run.now)})

(***************************************************************************)
(* C2, amended: the summary of a named period aggregates exactly the       *)
(* records of the user with createdAt >= now - delta (24 h, 7 d, 30 d),    *)
(* without upper bound; for all, every record of the user.                 *)
(***************************************************************************)
C2_LowerBoundWindow ==
    (SummaryServed /\ req.period \in NamedPeriods) =>
        /\ res.body.transactionCount = Cardinality(Counted)
        /\ SumSeq([j \in 1..Len(res.body.modelBreakdown) |-> res.body.modelBreakdown[j].count])
             = Cardinality(Grouped)
        /\ SumSeq([j \in 1..Len(res.body.dailyUsage) |-> res.body.dailyUsage[j].tokens])
             = SumSet(Dated, [i \in Dated |-> Magnitude(ledger[i].rawAmount)])

\* a week's summary that counts a record exactly 7 days old and leaves out an older one
C2_Witness ==
    /\ SummaryServed
    /\ req.period = <<"week">>
    /\ res.body.transactionCount = 1
    /\ \E i, j \in OwnedBy(req.user) :
          /\ i <= ReadBy(1) /\ j <= ReadBy(1)
          /\ ledger[i].createdAt = run.now - 7 * 24 * 3600
          /\ ledger[j].createdAt < run.now - 7 * 24 * 3600

(***************************************************************************)
(* C3: what a user gets from list and summary is what the ledger without   *)
(* the records of the other users gives: a record is matched iff its user  *)
(* field is the requester's id, as a string or as an ObjectId.             *)
(***************************************************************************)
NoFilters(q) == q.startDate = <<>> /\ q.endDate = <<>> /\ q.model = <<>> /\ q.conversationId = <<>>

C3_OtherUsersInvisible ==
    /\ (req.op = "list" /\ Answered) =>
          /\ res \in ListResponsesRead(OwnLedger(req.user, 1), OwnLedger(req.user, 2),
                                       req.user, req.query)
          /\ res.status = 200 =>
                /\ \A j \in 1..Len(res.body.transactions) :
                      res.body.transactions[j].user.id = req.user
                /\ NoFilters(req.query) =>
                      res.body.total = Cardinality({i \in OwnedBy(req.user) : i <= ReadBy(2)})
    /\ (req.op = "summary" /\ Answered) =>
          /\ res.body \in SummaryBodiesRead(OwnLedger(req.user, 1), OwnLedger(req.user, 2),
                                            OwnLedger(req.user, 3),
                                            req.user, req.period, run.now)
          /\ req.period = <<"all">> =>
                res.body.transactionCount =
                    Cardinality({i \in OwnedBy(req.user) : i <= ReadBy(1)})

\* a list that returns the requester's ObjectId-form record and not the other user's
C3_Witness ==
    /\ ListServed
    /\ NoFilters(req.query)
    /\ res.body.total = 1
    /\ Len(res.body.transactions) = 1
    /\ res.body.transactions[1].user.form = "objectid"
    /\ ReadBy(1) = 2
    /\ \E i \in 1..ReadBy(1) : ledger[i].user.id # req.user

(***************************************************************************)
(* C4: every summary sent carries totalCost, the sum of |tokenValue| over  *)
(* the records matched.                                                    *)
(***************************************************************************)
C4_TotalCostReported ==
    SummaryServed =>
        /\ "totalCost" \in DOMAIN res.body
        /\ res.body.totalCost = SumSet(Counted, [i \in Counted |-> Magnitude(ledger[i].tokenValue)])

(***************************************************************************)
(* C5: each modelBreakdown entry stands for the matched records of one     *)
(* model value (no model: the null entry), with tokens = the tiered prompt *)
(* amounts of its prompt rows plus |rawAmount| of its completion rows      *)
(* (credits rows add nothing), cost = the sum of |tokenValue| and count =  *)
(* the number of rows.                                                     *)
(***************************************************************************)
ClaimedTokens(r) ==
    IF r.tokenType = "prompt" THEN TieredPrompt(r)
    ELSE IF r.tokenType = "completion" THEN Magnitude(r.rawAmount)
    ELSE 0

C5_ModelBreakdownEntries ==
    SummaryServed =>
        LET mb == res.body.modelBreakdown
            rows(k) == {i \in Grouped : ledger[i].model = k}
        IN /\ {mb[j]._id : j \in 1..Len(mb)} = {ledger[i].model : i \in Grouped}
           /\ \A j \in 1..Len(mb) :
                 /\ mb[j].count = Cardinality(rows(mb[j]._id))
                 /\ mb[j].tokens =
                       SumSet(rows(mb[j]._id), [i \in rows(mb[j]._id) |-> ClaimedTokens(ledger[i])])
                 /\ "cost" \in DOMAIN mb[j]
                 /\ mb[j].cost =
                       SumSet(rows(mb[j]._id),
                              [i \in rows(mb[j]._id) |-> Magnitude(ledger[i].tokenValue)])

(***************************************************************************)
(* C6: modelBreakdown has at most 10 entries, its tokens never increase    *)
(* from one entry to the next, and its counts add up to at most            *)
(* transactionCount.                                                       *)
(***************************************************************************)
C6_BreakdownBounded ==
    SummaryServed =>
        LET mb == res.body.modelBreakdown
        IN /\ Len(mb) <= 10
           /\ \A j \in 1..(Len(mb) - 1) : mb[j].tokens >= mb[j + 1].tokens
           /\ SumSeq([j \in 1..Len(mb) |-> mb[j].count]) <= res.body.transactionCount

\* no record was appended between the queries of the call that was answered
Quiet == res # NoResponse => \A n \in 1..Len(run.read) : run.read[n] = run.read[1]

\* the same, for the calls during which the ledger did not grow
C6_QuietCall == Quiet => C6_BreakdownBounded

\* more than ten models: ten entries, not in the order of writing, some rows left out
C6_Witness ==
    /\ SummaryServed
    /\ Quiet
    /\ Len(res.body.modelBreakdown) = 10
    /\ SumSeq([j \in 1..10 |-> res.body.modelBreakdown[j].count]) < res.body.transactionCount
    /\ \E j \in 1..10 : res.body.modelBreakdown[j].count = 2
    /\ Cardinality({ledger[i].model : i \in Counted}) > 10

(***************************************************************************)
(* C7: totalTokens = promptTokens + completionTokens in every summary,     *)
(* and completionTokens is the sum of |rawAmount| over the completion      *)
(* records matched, credits records left out.                              *)
(***************************************************************************)
C7_TotalIsPromptPlusCompletion ==
    SummaryServed =>
        /\ res.body.totalTokens = res.body.promptTokens + res.body.completionTokens
        /\ res.body.completionTokens =
              SumSet(CompletionRows(Counted),
                     [i \in CompletionRows(Counted) |-> Magnitude(ledger[i].rawAmount)])

\* a summary over a credits record and a completion record
C7_Witness ==
    /\ SummaryServed
    /\ \E i \in Counted : ledger[i].tokenType = "credits" /\ Magnitude(ledger[i].rawAmount) > 0
    /\ \E i \in Counted : ledger[i].tokenType = "completion"
    /\ res.body.completionTokens > 0
    /\ res.body.totalTokens = res.body.completionTokens

\* the summary of the empty ledger
C7_WitnessEmpty ==
    /\ SummaryServed
    /\ Counted = {}
    /\ res.body.totalTokens = 0

(***************************************************************************)
(* C8: a summary request without period, or with a period that is none of  *)
(* day, week, month, all, is answered 200 with the aggregates of month.    *)
(***************************************************************************)
C8_UnknownPeriodIsMonth ==
    (req.op = "summary" /\ req.period \notin NamedPeriods /\ Answered) =>
        /\ res.status = 200
        /\ [res.body EXCEPT !.period = "month"]
              \in SummaryBodiesRead(SubSeq(ledger, 1, ReadBy(1)), SubSeq(ledger, 1, ReadBy(2)),
                                    SubSeq(ledger, 1, ReadBy(3)),
                                    req.user, <<"month">>, run.now)
        /\ res.body.transactionCount =
              Cardinality({i \in OwnedBy(req.user) :
                              /\ i <= ReadBy(1)
                              /\ ledger[i].createdAt >= run.now - 30 * 24 * 3600})

\* an unknown period: a record 30 days old counted, one a second older left out
C8_Witness ==
    /\ SummaryServed
    /\ req.period = <<"year">>
    /\ res.body.transactionCount = 1
    /\ \E i, j \in OwnedBy(req.user) :
          /\ i <= ReadBy(1) /\ j <= ReadBy(1)
          /\ ledger[i].createdAt = run.now - 30 * 24 * 3600
          /\ ledger[j].createdAt < run.now - 30 * 24 * 3600

(***************************************************************************)
(* C9: for a limit L >= 1 (at most 1000 are applied) and an offset k >= 0, *)
(* list returns the records at the positions k+1 .. min(k+L, n) of the n   *)
(* matching records in descending createdAt order, and total = n.          *)
(***************************************************************************)
\* a filter is given when the parameter is present and not empty
Given(f) == f # <<>> /\ f # <<"">>

\* the records that match the request, as find read the ledger
ListMatching ==
    {i \in OwnedBy(req.user) :
        /\ i <= ReadBy(1)
        /\ req.query.startDate # <<>> => ledger[i].createdAt >= req.query.startDate[1]
        /\ req.query.endDate # <<>> => ledger[i].createdAt <= req.query.endDate[1]
        /\ Given(req.query.model) => ledger[i].model = req.query.model
        /\ Given(req.query.conversationId) =>
              ledger[i].conversationId = req.query.conversationId}

Newer(i) == Cardinality({x \in ListMatching : ledger[x].createdAt > ledger[i].createdAt})
NotOlder(i) == Cardinality({x \in ListMatching : ledger[x].createdAt >= ledger[i].createdAt})

\* page holds the positions k+1 .. min(k+L, n) of an order of the matching
\* records by descending createdAt
IsPage(page, L, k) ==
    LET n == Cardinality(ListMatching)
    IN /\ Len(page) = Max(0, Min(k + L, n) - k)
       /\ \A a \in 1..Len(page) :
             /\ page[a].id \in ListMatching
             /\ page[a] = ledger[page[a].id]
             /\ Newer(page[a].id) < k + a
             /\ k + a <= NotOlder(page[a].id)
       /\ \A a, b \in 1..Len(page) : a # b => page[a].id # page[b].id

C9_PageOfMatching ==
    (/\ ListServed
     /\ ~res.body.limit.nan /\ res.body.limit.n >= 1
     /\ ~res.body.offset.nan /\ res.body.offset.n >= 0) =>
        /\ res.body.total = Cardinality(ListMatching)
        /\ IsPage(res.body.transactions, Min(res.body.limit.n, 1000), res.body.offset.n)

\* the same, for the calls during which the ledger did not grow
C9_QuietCall == Quiet => C9_PageOfMatching

\* limit=5, offset=5 over 12 matching records: records 6 to 10, total 12
C9_Witness ==
    /\ ListServed
    /\ Quiet
    /\ req.query.limit = <<<<"5">>>>
    /\ req.query.offset = <<<<"5">>>>
    /\ Cardinality(ListMatching) = 12
    /\ res.body.total = 12
    /\ Len(res.body.transactions) = 5
    /\ \A a \in 1..5 : Newer(res.body.transactions[a].id) <= 4 + a
    /\ Len(ledger) > 12

(***************************************************************************)
(* C10: whatever limit and offset are supplied, list applies a limit       *)
(* clamped to [1, 1000] (100 when none is given) and an offset clamped to  *)
(* >= 0 (0 when none is given).                                            *)
(***************************************************************************)
ClampedLimit(x) == IF x.nan THEN 100 ELSE Max(1, Min(x.n, 1000))
ClampedOffset(x) == IF x.nan THEN 0 ELSE Max(0, x.n)

C10_LimitAndOffsetClamped ==
    (req.op = "list" /\ Answered) =>
        /\ res.status = 200
        /\ Len(res.body.transactions) =
              Min(ClampedLimit(LimitOf(req.query)),
                  Max(0, Cardinality(ListMatching) - ClampedOffset(OffsetOf(req.query))))

(***************************************************************************)
(* C11: list returns the records in descending createdAt order, and a list *)
(* call has one possible result for given arguments and a given ledger:    *)
(* any second call with the same arguments against the unchanged ledger    *)
(* returns the same records in the same order, also when matching records  *)
(* share one createdAt value.                                              *)
(***************************************************************************)
WellFormedPaging ==
    /\ ~LimitOf(req.query).nan /\ LimitOf(req.query).n >= 1
    /\ ~OffsetOf(req.query).nan /\ OffsetOf(req.query).n >= 0

C11_ListOrderDeterministic ==
    (ListServed /\ WellFormedPaging) =>
        /\ \A a, b \in 1..Len(res.body.transactions) :
              a < b => res.body.transactions[a].createdAt >= res.body.transactions[b].createdAt
        /\ \A again \in ListResponsesRead(SubSeq(ledger, 1, ReadBy(1)),
                                           SubSeq(ledger, 1, ReadBy(2)),
                                           req.user, req.query) : again = res

(***************************************************************************)
(* C12: when a query of a handler fails (the find or the count of list,    *)
(* any of the three aggregations of summary, also after earlier ones       *)
(* succeeded), the response is status 500 with an error body only.         *)
(***************************************************************************)
C12_FailureIsError500 ==
    run.pc = "caught" =>
        /\ res.status = 500
        /\ DOMAIN res.body = {"error"}

\* the third aggregation fails after two succeeded on a ledger with records
\* of the requester; the count fails after the find returned a record
C12_Witness ==
    /\ run.pc = "caught"
    /\ run.failed \in {"dailyUsage", "countDocuments"}
    /\ OwnedBy(req.user) # {}
    /\ res.status = 500

(***************************************************************************)
(* What the Rate Estimator claims speak of.                                *)
(***************************************************************************)
\* the estimator is in Streaming
Streaming(c) == c.mounted /\ c.hasStartedStreaming

\* the effects of the last render have run and the state they set is rendered
Settled(c) == c.mounted /\ ~c.effects /\ c.useState = StateOf(c)

\* a step publishes finalStats
Publishes == stats'.mounted /\ stats'.finalStats # <<>> /\ stats'.finalStats # stats.finalStats

(***************************************************************************)
(* C13: finalStats is published only by a step that finds more than 0.5 s  *)
(* elapsed since the Streaming entry (the recorded streamStartTime) and a  *)
(* final text of more than 0 tokens; a generation that lasted less than    *)
(* 0.5 s publishes nothing.                                                *)
(***************************************************************************)
C13_ShortGenerationNotPublished ==
    [][Publishes =>
          /\ stats.startTimeRef # <<>>
          /\ nowMs - stats.startTimeRef[1] > 500
          /\ stats'.text.length > 0]_vars

(***************************************************************************)
(* C14: after any sequence of toggles and mounts each mounted display      *)
(* (MessageTokens, StreamingStats) has the show flag of the stored         *)
(* preference (enabled when nothing is stored): a toggle reaches the       *)
(* mounted displays through the broadcast, without a remount, and while    *)
(* the preference is off every mounted display renders nothing.            *)
(***************************************************************************)
Preferred == storage # <<"false">>

C14_DisplaysFollowPreference ==
    /\ \A m \in MessageIds :
          /\ displays[m].mounted => displays[m].showTokens = Preferred
          /\ ~Preferred => ~TokensRendered(displays[m], m)
    /\ stats.mounted => stats.showTokens = Preferred
    /\ (stats.mounted /\ ~Preferred) => Rendered(stats) = "null"
    /\ toggle.mounted => toggle.showTokens = Preferred

(***************************************************************************)
(* C15: for a text that grows steadily from 0 to 400 characters in 2       *)
(* seconds while the producing flag is true, the live rate has come to     *)
(* about 50 tokens/second when the text is complete, and when the flag     *)
(* goes false at that moment finalStats has totalTokens = 100 and a rate   *)
(* of about 50.  About 50 is taken widely: between 25 and 75.  Both are    *)
(* read once the effects of the last render have run and the state they    *)
(* set is rendered.                                                        *)
(***************************************************************************)
About50(x) == 25 <= x /\ x <= 75

C15_SteadyStreamRate ==
    /\ (/\ Settled(stats) /\ stats.isSubmitting /\ stats.text.length = 400
        /\ nowMs = StartMs + 2000) =>
          About50(stats.tokensPerSecond)
    /\ (Settled(stats) /\ ~stats.isSubmitting /\ nowMs = StartMs + 2000) =>
          /\ stats.finalStats # <<>>
          /\ stats.finalStats[1].totalTokens = 100
          /\ About50(stats.finalStats[1].tps)

(***************************************************************************)
(* C16 (the version with the preference, whose completion effect the claim *)
(* is about): when the effects run of a render in which the producing flag *)
(* has gone from true to false, the estimator being in Streaming and the   *)
(* text not empty, they leave the estimator in Idle with an empty sample   *)
(* window, no streamStartTime, live rate 0 and no interval, published or   *)
(* not; a finalStats they publish has totalTokens = ceil(length / 4),      *)
(* duration = now - streamStartTime and as rate an integer nearest to      *)
(* totalTokens / (duration / 1000).                                        *)
(***************************************************************************)
\* the effects of the last render run
EffectsRun == stats.mounted /\ stats'.mounted /\ stats.effects /\ ~stats'.effects

\* they are the effects of a render in which the producing flag has gone false
ProducingEnds ==
    /\ EffectsRun
    /\ Streaming(stats)
    /\ stats.deps # <<>> /\ stats.deps[1].isSubmitting /\ ~stats.isSubmitting
    /\ stats.text.length # 0

CeilDiv(a, b) == IF a % b = 0 THEN a \div b ELSE a \div b + 1

\* n is an integer nearest to a / b, for b > 0
Nearest(n, a, b) == 2 * (n * b - a) <= b /\ 2 * (a - n * b) <= b

C16_FinalizeReturnsToIdle ==
    [][(stats.variant = WithPreference /\ ProducingEnds) =>
          /\ ~stats'.hasStartedStreaming
          /\ stats'.tokenHistoryRef = <<>>
          /\ stats'.startTimeRef = <<>>
          /\ stats'.tokensPerSecond = 0
          /\ stats'.interval = <<>>
          /\ Publishes =>
                /\ stats'.finalStats[1].totalTokens = CeilDiv(stats.text.length, 4)
                /\ stats'.finalStats[1].duration = nowMs - stats.startTimeRef[1]
                /\ Nearest(stats'.finalStats[1].tps, 1000 * CeilDiv(stats.text.length, 4),
                           nowMs - stats.startTimeRef[1])]_vars

\* a generation of 28 characters has ended 0.56 s after its Streaming entry
\* and is rendered: 7 tokens, and 7 / 0.56 falls just below 12.5 in doubles
C16_Witness ==
    /\ stats.variant = WithPreference
    /\ Settled(stats) /\ ~stats.isSubmitting /\ ~stats.hasStartedStreaming
    /\ stats.text.length = 28
    /\ stats.finalStats = <<[tps |-> 12, totalTokens |-> 7, duration |-> 560]>>
    /\ stats.tokensPerSecond = 0
    /\ stats.tokenHistoryRef = <<>> /\ stats.startTimeRef = <<>>
    /\ stats.interval = <<>>

(***************************************************************************)
(* C17: the estimator enters Streaming exactly when the producing flag is  *)
(* true for the latest message and the text has grown past the length      *)
(* recorded before; the entry records streamStartTime = now, empties the   *)
(* sample window and clears the finalStats of an earlier generation.       *)
(***************************************************************************)
\* the length of the text of the render before (0 before the first)
RecordedLength == IF stats.deps = <<>> THEN 0 ELSE stats.deps[1].text.length

EntersStreaming == stats.mounted /\ stats'.mounted /\ ~Streaming(stats) /\ Streaming(stats')

\* the effects run of a render with the producing flag true for the latest
\* message and a text longer than the one recorded
EntryCondition ==
    /\ EffectsRun
    /\ stats.isSubmitting /\ stats.isLatestMessage
    /\ stats.text.length > RecordedLength

C17_StreamingEntry ==
    [][/\ EntersStreaming =>
            /\ EntryCondition
            /\ stats'.startTimeRef = <<nowMs>>
            /\ stats'.tokenHistoryRef = <<>>
            /\ stats'.finalStats = <<>>
       /\ (EntryCondition /\ ~Streaming(stats)) => Streaming(stats')]_vars

(***************************************************************************)
(* C18: the rate every sample produces is a number >= 0: it is 0 when      *)
(* fewer than 2 samples remain in the window, and 0 when the newest sample *)
(* has fewer tokens than the oldest (the text became shorter).             *)
(***************************************************************************)
\* a step that takes a sample: the window changes and is not empty
SampleTaken ==
    /\ stats.mounted /\ stats'.mounted
    /\ stats'.tokenHistoryRef # <<>>
    /\ stats'.tokenHistoryRef # stats.tokenHistoryRef

Oldest(h) == h[1]
Newest(h) == h[Len(h)]

C18_RateNeverNegative ==
    [][SampleTaken =>
          /\ stats'.tokensPerSecond >= 0
          /\ Len(stats'.tokenHistoryRef) < 2 => stats'.tokensPerSecond = 0
          /\ Newest(stats'.tokenHistoryRef).tokens < Oldest(stats'.tokenHistoryRef).tokens
                => stats'.tokensPerSecond = 0]_vars

(***************************************************************************)
(* C19: the samples retained in the window lie within 2 seconds of the     *)
(* newest one, are in non-decreasing time order with the newest last, and  *)
(* are at most WindowBound however long the stream runs, however late the  *)
(* callbacks of the interval come and whichever of them read the clock a   *)
(* millisecond early: one sample for each interval period of the horizon,  *)
(* and one more for a callback that came late or read the clock early.     *)
(***************************************************************************)
WindowBound == HorizonMs \div IntervalMs + 1

C20_SampleEvery200ms ==
    (/\ stats.variant = WithPreference
     /\ Streaming(stats)
     /\ stats.isSubmitting
     /\ stats.tokenHistoryRef # <<>>)
        => nowMs - Newest(stats.tokenHistoryRef).time <= IntervalMs

(***************************************************************************)
(* C21: when the effects run of the render in which the message stopped    *)
(* being the latest one, the estimator being in Streaming, they leave it   *)
(* Idle (window empty, start time cleared, no interval armed) and publish  *)
(* no finalStats; and no finalStats is published later for a message that  *)
(* is not the latest one.                                                  *)
(***************************************************************************)
\* the effects of a render in which the streaming message is no longer the
\* latest one
Interrupted ==
    /\ EffectsRun
    /\ Streaming(stats)
    /\ stats.deps # <<>> /\ stats.deps[1].isLatestMessage /\ ~stats.isLatestMessage

C21_ResetWhenNotLatest ==
    [][/\ Interrupted =>
            /\ ~Streaming(stats')
            /\ stats'.tokenHistoryRef = <<>>
            /\ stats'.startTimeRef = <<>>
            /\ stats'.interval = <<>>
            /\ ~Publishes
       /\ Publishes => stats.isLatestMessage]_vars

(***************************************************************************)
(* C22: at most one interval is armed, and it is armed only while the      *)
(* component is mounted and the estimator is in Streaming; a step that     *)
(* appends a sample or that changes the live rate to a tick's value starts *)
(* and ends in Streaming.                                                  *)
(***************************************************************************)
TimerOnlyWhileStreaming ==
    /\ Len(stats.interval) <= 1
    /\ stats.interval # <<>> => stats.mounted /\ Streaming(stats)
    /\ ~Streaming(stats) => stats.tokenHistoryRef = <<>>

C22_NoTickOutsideStreaming ==
    /\ []TimerOnlyWhileStreaming
    /\ [][SampleTaken => Streaming(stats) /\ Streaming(stats') /\ (stats.interval # <<>> /\ stats.interval[1].due - SkewMs <= nowMs)]_vars

(***************************************************************************)
(* C23: with the display preference enabled, once the effects of the last  *)
(* render have run and the state they set is rendered, the live rate is    *)
(* what the component shows only in Streaming with a rate > 0, and the     *)
(* finalStats that were published are what it shows in every state until   *)
(* the next entry to Streaming clears them: they are cleared by no other   *)
(* step of the mounted component.                                          *)
(***************************************************************************)
Shown(c) == c.variant = WithPreference /\ c.mounted /\ c.showTokens

FinalStatsDisplayed ==
    /\ (Shown(stats) /\ Settled(stats) /\ Rendered(stats) = "live")
          => Streaming(stats) /\ stats.tokensPerSecond > 0
    /\ (Shown(stats) /\ Settled(stats) /\ stats.finalStats # <<>> /\ ~Streaming(stats))
          => Rendered(stats) = "final"

C23_FinalStatsStayDisplayed ==
    /\ []FinalStatsDisplayed
    /\ [][(Shown(stats) /\ Shown(stats') /\ stats.finalStats # <<>> /\ stats'.finalStats = <<>>)
              => Streaming(stats')]_vars

(***************************************************************************)
(* C24: a response served while the ledger writer appends between the      *)
(* queries of the call is the response for one snapshot of the ledger: in  *)
(* a summary the counts of modelBreakdown add up to at most                *)
(* transactionCount, in a list total is at least offset plus the number of *)
(* records returned.                                                       *)
(***************************************************************************)
\* the ledger is appended to only: its snapshots are its prefixes
Snapshots == { SubSeq(ledger, 1, k) : k \in 0..Len(ledger) }

C24_SnapshotConsistent ==
    /\ SummaryServed =>
          /\ \E d \in Snapshots : res.body \in SummaryBodies(d, req.user, req.period, run.now)
          /\ SumSeq([j \in 1..Len(res.body.modelBreakdown) |-> res.body.modelBreakdown[j].count])
                <= res.body.transactionCount
    /\ ListServed =>
          /\ \E d \in Snapshots : res \in ListResponses(d, req.user, req.query)
          /\ res.body.total >= res.body.offset.n + Len(res.body.transactions)

(***************************************************************************)
(* C25: once isSubmitting is false and the effects of that render have     *)
(* run, the estimator is not in Streaming and has no start time; and when  *)
(* the effects run of the render that begins the next generation           *)
(* (isSubmitting has gone true), the start time they leave is unset or is  *)
(* the time of that run, never a time of the generation before: a duration *)
(* published later is measured within one generation.                      *)
(***************************************************************************)
IdleWhenNotSubmitting ==
    (/\ stats.variant = WithPreference
     /\ stats.mounted /\ ~stats.effects
     /\ ~stats.isSubmitting)
        => /\ ~Streaming(stats)
           /\ stats.startTimeRef = <<>>

\* the effects of a render in which the producing flag has gone true
ProducingBegins ==
    /\ EffectsRun
    /\ stats.isSubmitting
    /\ stats.deps # <<>> => ~stats.deps[1].isSubmitting

C25_GenerationRestartsFromIdle ==
    /\ []IdleWhenNotSubmitting
    /\ [][(/\ stats.variant = WithPreference
           /\ ProducingBegins
           /\ stats'.startTimeRef # <<>>)
              => stats'.startTimeRef = <<nowMs>>]_vars

====
